---- MODULE Spec2Model ----
(***************************************************************************)
(* Verification model of the openade receipts chain.                       *)
(*                                                                         *)
(*   JournalManager  packages/pem/src/journal.manager.ts                   *)
(*   PEMManager      packages/pem/src/pem.manager.ts                       *)
(*   PELServer       packages/pel/src/pel.server.ts                        *)
(*   SQLDatabase     examples/pel/src/sql.database.ts                      *)
(*                                                                         *)
(* Amounts are integers (euro cents).  Timestamps are natural numbers: the *)
(* n-th value returned by new Date().toISOString().  A SHA-256 digest is   *)
(* the tuple of the four fields it is computed from (an injective hash).   *)
(***************************************************************************)
EXTENDS Integers, Sequences, FiniteSets, TLC

(***************************************************************************)
(* Bounds of the model.                                                    *)
(***************************************************************************)
MaxTime == 2
MaxEntries == 4
MaxAmount == 2
MaxSessions == 2
MaxDocuments == 2
MaxIngestions == 2
MaxVoci == 2
MaxQuantity == 2
MaxLines == 2
MaxJobs == 1
MaxHashes == 2

\* Clock readings per calendar day.
DayLength == 4

VARIABLES
  now,        \* the wall clock read by new Date()
  journal,    \* JournalManager: [entries, currentHash, isOpen]
  jcall,      \* the last call made on the journal and what it returned
  tampered,   \* number of entries changed behind the journal's back
  pem,        \* PEMManager: [hasPel, documentCounter, isSessionOpen, unsyncedDocuments]
  storage,    \* IPEMStorage (MemoryStorage): [documents, journals]
  pelLog,     \* the requests the PELClient has made, in order, with their outcome
  pcall,      \* the last call made on the PEMManager and what it returned
  sessions,   \* number of sessions opened so far
  pdb,        \* PEL SQLDatabase: [documents, journals, daily], each a set of rows
  pfiles,     \* PEL IStorage: the paths stored
  tasks,      \* PEL: the generateDailyReceipts calls started, in order
  adeLog,     \* the daily receipts the tax authority has received, by sending call
  aggLog,     \* the daily receipts rows written, by writing call, with what was read
  presp,      \* the last HTTP response of the PEL server
  fin,        \* the argument of the function applied
  fout,       \* [done, ret]: whether it has returned, and what
  ajobs,      \* AuditServer.jobs, by idPresaInCarico (the order of creation)
  afiles,     \* the audit files in the IStorage: <<type, job, name>>
  aresp,      \* the last HTTP response of the audit server
  maxRetries, \* OutcomePollerConfig.maxRetries as configured
  pending,    \* OutcomePoller.pendingTransmissions, in insertion order
  cycle       \* the poll() call in progress, if any, the cycles made, and the
              \* keys registered since that call started or last read them

journalSide == <<jcall, tampered>>
pemSide == <<pem, storage, pelLog, pcall, sessions>>
pelSide == <<pdb, pfiles, tasks, adeLog, aggLog, presp>>
fnSide == <<fin, fout>>
auditSide == <<ajobs, afiles, aresp>>
pollSide == <<maxRetries, pending, cycle>>
vars == <<now, journal, journalSide, pemSide, pelSide, fnSide, auditSide, pollSide>>

(***************************************************************************)
(* Values.                                                                 *)
(***************************************************************************)
Times == 0..MaxTime
Amounts == 1..MaxAmount

\* '0'.repeat(64)
Genesis == <<"0^64">>

\* The DocumentoCommerciale payloads a caller hands to addDocument at time t
\* as the n-th document.
DocPayloads(n, t) ==
  [kind : {"doc"}, numero : {n}, dataOra : {t}, importoTotale : Amounts]

\* The payloads of the same shape as d that an entry holding d can be
\* rewritten to behind the journal's back.
OtherPayloads(d) ==
  (CASE d.kind = "doc" ->
          [kind : {"doc"}, numero : {d.numero, d.numero + 1},
           dataOra : {d.dataOra}, importoTotale : 0..MaxAmount]
     [] d.kind = "open" ->
          [kind : {"open"}, dataOraApertura : Times]
     [] OTHER ->
          [kind : {"close"}, dataOraChiusura : Times,
           totaleNumeroDCProdottiJournal :
             {d.totaleNumeroDCProdottiJournal, d.totaleNumeroDCProdottiJournal + 1},
           importoTotaleGiornaliero : {d.importoTotaleGiornaliero}])
  \ {d}

NoCall == [op |-> "none", pre |-> FALSE, ok |-> TRUE, err |-> "", ret |-> <<>>]

(***************************************************************************)
(* JournalManager                                                          *)
(***************************************************************************)
\* (mutant: the payload is left out of the digest)
calculateHash_NoData(entry) ==
  <<entry.type, entry.timestamp, entry.previousHash>>

\* JSON.stringify({type, timestamp, data, previousHash}) followed by
\* SHA-256: the entry's own hash field is not part of the input.
calculateHash(entry) ==
  <<entry.type, entry.timestamp, entry.data, entry.previousHash>>

NewJournal == [entries |-> <<>>, currentHash |-> Genesis, isOpen |-> FALSE]

mkEntry(type, timestamp, data, previousHash) ==
  LET e == [type |-> type, timestamp |-> timestamp, data |-> data,
            previousHash |-> previousHash, hash |-> <<>>]
  IN [e EXCEPT !.hash = calculateHash(e)]

\* (mutant: the head hash is not advanced)
pushEntry_StaleHead(j, e, open) ==
  [entries |-> Append(j.entries, e), currentHash |-> j.currentHash, isOpen |-> open]

\* this.currentHash = entry.hash; this.entries.push(entry); this.isOpen = ...
pushEntry(j, e, open) ==
  [entries |-> Append(j.entries, e), currentHash |-> e.hash, isOpen |-> open]

\* openCash(): [ok, err, ret, j]
openCash(j, t1, t2) ==
  IF j.isOpen
  THEN [ok |-> FALSE, err |-> "Cash register already open", ret |-> <<>>, j |-> j]
  ELSE LET e == mkEntry("AA", t1, [kind |-> "open", dataOraApertura |-> t2],
                        j.currentHash)
       IN [ok |-> TRUE, err |-> "", ret |-> e.hash, j |-> pushEntry(j, e, TRUE)]

\* (mutant: the entry is appended whether the cash register is open or not)
addDocument_Unguarded(j, document, t1) ==
  LET e == mkEntry("DC", t1, document, j.currentHash)
  IN [ok |-> TRUE, err |-> "", ret |-> e.hash, j |-> pushEntry(j, e, j.isOpen)]

\* addDocument(document)
addDocument(j, document, t1) ==
  IF ~j.isOpen
  THEN [ok |-> FALSE, err |-> "Cash register not open", ret |-> <<>>, j |-> j]
  ELSE LET e == mkEntry("DC", t1, document, j.currentHash)
       IN [ok |-> TRUE, err |-> "", ret |-> e.hash, j |-> pushEntry(j, e, j.isOpen)]

\* this.entries.filter((e) => e.type === 'DC')
documentsOf(entries) == SelectSeq(entries, LAMBDA e : e.type = "DC")

\* data?.importoTotale || 0
amountOf(data) ==
  IF data.kind = "doc" THEN data.importoTotale ELSE 0

\* documents.reduce((sum, e) => sum + (e.data?.importoTotale || 0), 0)
RECURSIVE sumAmounts(_)
sumAmounts(s) ==
  IF s = <<>> THEN 0 ELSE amountOf(s[1].data) + sumAmounts(Tail(s))

\* closeCash()
closeCash(j, t1, t2) ==
  IF ~j.isOpen
  THEN [ok |-> FALSE, err |-> "Cash register not open", ret |-> <<>>, j |-> j]
  ELSE LET documents == documentsOf(j.entries)
           totalAmount == sumAmounts(documents)
           e == mkEntry("CC", t1,
                        [kind |-> "close", dataOraChiusura |-> t2,
                         totaleNumeroDCProdottiJournal |-> Len(documents),
                         importoTotaleGiornaliero |-> totalAmount],
                        j.currentHash)
       IN [ok |-> TRUE, err |-> "",
           ret |-> [hash |-> e.hash, totalDocuments |-> Len(documents),
                    totalAmount |-> totalAmount],
           j |-> pushEntry(j, e, FALSE)]

\* verify(): walk the entries from the genesis hash.
RECURSIVE verifyFrom(_, _)
verifyFrom(entries, previousHash) ==
  IF entries = <<>> THEN TRUE
  ELSE LET entry == entries[1]
       IN IF entry.previousHash # previousHash THEN FALSE
          ELSE IF calculateHash(entry) # entry.hash THEN FALSE
          ELSE verifyFrom(Tail(entries), entry.hash)

verify(j) == verifyFrom(j.entries, Genesis)

\* getEntries(): a fresh array of the SAME entry objects, so a caller can
\* rewrite a field of a stored entry.
getEntries(j) == j.entries

\* exportJournal(): JSON of {entries, currentHash, verified}
exportJournal(j) ==
  [entries |-> j.entries, currentHash |-> j.currentHash, verified |-> verify(j)]

(***************************************************************************)
(* DocumentBuilder                                                         *)
(***************************************************************************)
\* Math.round(p / q) for q > 0: halves go up.
roundDiv(p, q) == (2 * p + q) \div (2 * q)

RECURSIVE sumLines(_)
sumLines(lines) ==
  IF lines = <<>> THEN 0
  ELSE lines[1].quantity * lines[1].unitPrice + sumLines(Tail(lines))

\* the rates in order of first appearance (the insertion order of the Map)
RECURSIVE ratesOf(_, _)
ratesOf(lines, seen) ==
  IF lines = <<>> THEN seen
  ELSE ratesOf(Tail(lines),
               IF \E i \in 1..Len(seen) : seen[i] = lines[1].vatRate
               THEN seen ELSE Append(seen, lines[1].vatRate))

\* build(lines, documentNumber) at time t.  For one rate the group's taxable
\* amount is total / (1 + rate/100) and its tax the rest, each rounded to the
\* cent once per group.
build(lines, documentNumber, t) ==
  LET rates == ratesOf(lines, <<>>)
      group(r) == sumLines(SelectSeq(lines, LAMBDA l : l.vatRate = r))
  IN [kind |-> "doc",
      numero |-> documentNumber,
      dataOra |-> t,
      datiRiepilogo |->
        [i \in 1..Len(rates) |->
           [aliquotaIVA |-> rates[i],
            imponibile |-> roundDiv(100 * group(rates[i]), 100 + rates[i]),
            imposta |-> roundDiv(rates[i] * group(rates[i]), 100 + rates[i])]],
      importoTotale |-> sumLines(lines)]

(***************************************************************************)
(* PEMManager                                                              *)
(***************************************************************************)
line(quantity, unitPrice, vatRate) ==
  [quantity |-> quantity, unitPrice |-> unitPrice, vatRate |-> vatRate]

\* The line lists a caller hands to emitReceipt: 2 x 2.50 at 10%, and
\* 1 x 3.00 at 10% with 1 x 1.00 at 22%.
LineInputs ==
  {<<line(2, 250, 10)>>, <<line(1, 300, 10), line(1, 100, 22)>>}

\* What a request of the PELClient can come to: answered 2xx, answered with
\* an error status (or the connection refused), aborted after the timeout.
PelOutcomes == {"ok", "failed", "timeout"}

\* new Date().toISOString().split('T')[0]
dateOf(t) == t \div DayLength

\* Map.set(key, value) on a map kept as a sequence of [key, value]
mapSet(m, k, v) ==
  IF \E i \in 1..Len(m) : m[i].key = k
  THEN [i \in 1..Len(m) |-> IF m[i].key = k THEN [key |-> k, value |-> v] ELSE m[i]]
  ELSE Append(m, [key |-> k, value |-> v])

\* PELClient.sendJournal: every throw of request() becomes success=false.
sendJournal(outcome) == [success |-> outcome = "ok"]

\* validateJournal: versione, identificativoPEM, dataRiferimento,
\* dataOraGenerazione and an array voci must be there.
validateJournal(j) ==
  {"versione", "pem", "date", "generated", "voci"} \subseteq DOMAIN j

\* What the push of a journal comes to: a request that reaches the PEL
\* server is answered 400 when validateJournal refuses the body.
journalAnswer(body, outcome) ==
  IF outcome = "ok" /\ ~validateJournal(body) THEN "failed" ELSE outcome

\* (mutant: an aborted request is not reported as a failure)
sendDocument_TimeoutUnnoticed(outcome) == [success |-> outcome # "failed"]

\* PELClient.sendDocument: request() throws on a non-2xx answer and on the
\* abort of the timeout; sendDocument turns every throw into success=false.
sendDocument(outcome) == [success |-> outcome = "ok"]

\* (mutant: the guard is missing)
notOpen_Never(p) == FALSE

\* if (!this.isSessionOpen) throw new Error('Session not open')
notOpen(p) == ~p.isSessionOpen

\* if (this.isSessionOpen) throw new Error('Session already open')
alreadyOpen(p) == p.isSessionOpen

fail(op, pre, err) ==
  [op |-> op, pre |-> pre, ok |-> FALSE, err |-> err, ret |-> <<>>]

done(op, pre, ret) ==
  [op |-> op, pre |-> pre, ok |-> TRUE, err |-> "", ret |-> ret]

(***************************************************************************)
(* SpecJournal: a JournalManager driven directly by its caller.            *)
(***************************************************************************)
JournalIdle ==
  /\ jcall = NoCall
  /\ tampered = 0

PEMIdle ==
  /\ pem = [hasPel |-> FALSE, documentCounter |-> 0, isSessionOpen |-> FALSE,
            unsyncedDocuments |-> <<>>]
  /\ storage = [documents |-> <<>>, journals |-> <<>>]
  /\ pelLog = <<>>
  /\ pcall = NoCall
  /\ sessions = 0

PELIdle ==
  /\ pdb = [documents |-> {}, journals |-> {}, daily |-> {}]
  /\ pfiles = {}
  /\ tasks = <<>>
  /\ adeLog = {}
  /\ aggLog = {}
  /\ presp = [status |-> 0]

NotReturned == [done |-> FALSE, ret |-> FALSE]

FnIdle ==
  /\ fin = <<>>
  /\ fout = NotReturned

AuditIdle ==
  /\ ajobs = <<>>
  /\ afiles = {}
  /\ aresp = [op |-> "none", job |-> 0, status |-> 0, body |-> <<>>]

\* The maxRetries of the OutcomePoller constructor's defaults.
DefaultMaxRetries == 288

NoCycle ==
  [pc |-> "idle", pos |-> 0, held |-> <<>>, toRemove |-> {}, count |-> 0,
   registered |-> {}]

\* An OutcomePoller as constructed with no configuration of its own.
PollIdle ==
  /\ maxRetries = DefaultMaxRetries
  /\ pending = <<>>
  /\ cycle = NoCycle

JInit ==
  /\ now = 0
  /\ journal = NewJournal
  /\ JournalIdle
  /\ PEMIdle
  /\ PELIdle
  /\ FnIdle
  /\ AuditIdle
  /\ PollIdle

Tick ==
  /\ now < MaxTime
  /\ now' = now + 1
  /\ UNCHANGED <<journal, jcall, tampered, pemSide, pelSide, fnSide, pollSide, auditSide>>

JOpenCash ==
  /\ Len(journal.entries) < MaxEntries
  /\ LET r == openCash(journal, now, now)
     IN /\ journal' = r.j
        /\ jcall' = [op |-> "openCash", pre |-> journal.isOpen, ok |-> r.ok, err |-> r.err, ret |-> r.ret]
  /\ UNCHANGED <<now, tampered, pemSide, pelSide, fnSide, pollSide, auditSide>>

JAddDocument ==
  /\ Len(journal.entries) < MaxEntries
  /\ \E d \in DocPayloads(Len(documentsOf(journal.entries)) + 1, now) :
       LET r == addDocument(journal, d, now)
       IN /\ journal' = r.j
          /\ jcall' = [op |-> "addDocument", pre |-> journal.isOpen, ok |-> r.ok, err |-> r.err, ret |-> r.ret]
  /\ UNCHANGED <<now, tampered, pemSide, pelSide, fnSide, pollSide, auditSide>>

JCloseCash ==
  /\ Len(journal.entries) < MaxEntries
  /\ LET r == closeCash(journal, now, now)
     IN /\ journal' = r.j
        /\ jcall' = [op |-> "closeCash", pre |-> journal.isOpen, ok |-> r.ok, err |-> r.err, ret |-> r.ret]
  /\ UNCHANGED <<now, tampered, pemSide, pelSide, fnSide, pollSide, auditSide>>

\* A holder of getEntries() rewrites the payload of one stored entry.
JTamperData ==
  /\ tampered = 0
  /\ \E i \in 1..Len(getEntries(journal)) :
       \E d \in OtherPayloads(journal.entries[i].data) :
         journal' = [journal EXCEPT !.entries[i].data = d]
  /\ tampered' = 1
  /\ jcall' = [NoCall EXCEPT !.op = "tamper"]
  /\ UNCHANGED <<now, pemSide, pelSide, fnSide, pollSide, auditSide>>

\* A holder of getEntries() rewrites the timestamp of one stored entry.
JTamperTimestamp ==
  /\ tampered = 0
  /\ \E i \in 1..Len(getEntries(journal)) :
       \E t \in Times \ {journal.entries[i].timestamp} :
         journal' = [journal EXCEPT !.entries[i].timestamp = t]
  /\ tampered' = 1
  /\ jcall' = [NoCall EXCEPT !.op = "tamper"]
  /\ UNCHANGED <<now, pemSide, pelSide, fnSide, pollSide, auditSide>>

JNext ==
  \/ Tick
  \/ JOpenCash
  \/ JAddDocument
  \/ JCloseCash
  \/ JTamperData
  \/ JTamperTimestamp

SpecJournal == JInit /\ [][JNext]_vars

\* C26: openCash() on an open journal, and addDocument() or closeCash() on a
\* journal that is not open, throw, and a call that throws leaves the
\* entries, the head hash and the open flag as they were.
C26_FailedCallChangesNothing ==
  [][(now' = now /\ tampered' = tampered
      /\ jcall'.op \in {"openCash", "addDocument", "closeCash"})
       => /\ (jcall'.op = "openCash" /\ journal.isOpen) => ~jcall'.ok
          /\ (jcall'.op \in {"addDocument", "closeCash"} /\ ~journal.isOpen)
               => ~jcall'.ok
          /\ ~jcall'.ok
               => /\ journal'.entries = journal.entries
                  /\ journal'.currentHash = journal.currentHash
                  /\ journal'.isOpen = journal.isOpen]_vars

C26_Witness ==
  /\ jcall.op = "addDocument"
  /\ ~jcall.ok
  /\ ~journal.isOpen
  /\ Len(journal.entries) = 3
  /\ journal.entries[3].type = "CC"
  /\ journal.currentHash = journal.entries[3].hash

\* C1: a journal produced by open, N >= 0 appends and close (no entry
\* rewritten afterwards) passes verify().
C1_ChainVerifies ==
  (tampered = 0 /\ journal.entries # <<>> /\ ~journal.isOpen) => verify(journal)

C1_Witness ==
  /\ tampered = 0
  /\ ~journal.isOpen
  /\ Len(journal.entries) = 4
  /\ journal.entries[1].type = "AA"
  /\ journal.entries[4].type = "CC"
  /\ verify(journal)

\* C2: once the payload or the timestamp of a single entry has been changed
\* (every other stored field left alone), verify() is false.
C2_TamperDetected ==
  tampered = 1 => ~verify(journal)

C2_Witness ==
  /\ tampered = 1
  /\ ~journal.isOpen
  /\ Len(journal.entries) >= 3
  /\ ~verify(journal)


(***************************************************************************)
(* SpecPEM: one PEMManager, its journal, its local storage and the PEL it  *)
(* pushes to.  A session is strictly sequential: each call runs to its end *)
(* before the next one starts.  The clock has moved on by one reading      *)
(* whenever a call has written to the journal.                             *)
(***************************************************************************)
StorageOutcomes == {"stored", "error"}

PInit ==
  /\ now = 0
  /\ journal = NewJournal
  /\ JournalIdle
  /\ \E hasPel \in BOOLEAN :
       pem = [hasPel |-> hasPel, documentCounter |-> 0, isSessionOpen |-> FALSE,
              unsyncedDocuments |-> <<>>]
  /\ storage = [documents |-> <<>>, journals |-> <<>>]
  /\ pelLog = <<>>
  /\ pcall = NoCall
  /\ sessions = 0
  /\ PELIdle
  /\ FnIdle
  /\ AuditIdle
  /\ PollIdle

\* openSession(); the seed request is best effort and leaves no state behind.
POpenSession ==
  /\ sessions < MaxSessions
  /\ IF alreadyOpen(pem)
     THEN /\ pcall' = fail("openSession", pem.isSessionOpen, "Session already open")
          /\ UNCHANGED <<journal, pem, sessions>>
     ELSE LET o == openCash(journal, now, now)
          IN IF ~o.ok
             THEN /\ pcall' = fail("openSession", pem.isSessionOpen, o.err)
                  /\ UNCHANGED <<journal, pem, sessions>>
             ELSE /\ journal' = o.j
                  /\ pem' = [pem EXCEPT !.isSessionOpen = TRUE,
                                        !.documentCounter = 0,
                                        !.unsyncedDocuments = <<>>]
                  /\ sessions' = sessions + 1
                  /\ pcall' = done("openSession", pem.isSessionOpen, <<>>)
  /\ now' = IF pcall'.ok THEN now + 1 ELSE now
  /\ UNCHANGED <<journalSide, storage, pelLog, pelSide, fnSide, pollSide, auditSide>>

\* (mutant: the counter stays at 1 once it is there)
nextDocumentNumber_Stuck(p) ==
  IF p.documentCounter = 0 THEN 1 ELSE p.documentCounter

\* this.documentCounter++, the number of the document being emitted (padded
\* to six digits, which keeps the order of the numbers below 1000000).
nextDocumentNumber(p) == p.documentCounter + 1

\* emitReceipt(lines)
PEmitReceipt ==
  /\ Len(documentsOf(journal.entries)) < MaxDocuments
  /\ pem.documentCounter < MaxDocuments
  /\ \E lines \in LineInputs,
        st \in IF pem.isSessionOpen /\ journal.isOpen THEN StorageOutcomes ELSE {"stored"},
        po \in IF pem.isSessionOpen /\ pem.hasPel THEN PelOutcomes ELSE {"ok"} :
       IF notOpen(pem)
       THEN /\ pcall' = fail("emitReceipt", pem.isSessionOpen, "Session not open")
            /\ UNCHANGED <<journal, pem, storage, pelLog>>
       ELSE
         LET counter == nextDocumentNumber(pem)
             document == build(lines, counter, now)
             a == addDocument(journal, document, now)
         IN IF ~a.ok
            THEN /\ pem' = [pem EXCEPT !.documentCounter = counter]
                 /\ pcall' = fail("emitReceipt", pem.isSessionOpen, a.err)
                 /\ UNCHANGED <<journal, storage, pelLog>>
            ELSE IF st = "error"
            THEN /\ journal' = a.j
                 /\ pem' = [pem EXCEPT !.documentCounter = counter]
                 /\ pcall' = [fail("emitReceipt", pem.isSessionOpen, "StorageError")
                                EXCEPT !.ret = [document |-> document]]
                 /\ UNCHANGED <<storage, pelLog>>
            ELSE LET synced == pem.hasPel /\ sendDocument(po).success
                 IN /\ journal' = a.j
                    /\ storage' = [storage EXCEPT
                                     !.documents = mapSet(@, counter, document)]
                    /\ pelLog' = IF pem.hasPel
                                 THEN Append(pelLog,
                                        [kind |-> "document", session |-> sessions,
                                         numero |-> counter, by |-> "emitReceipt",
                                         sealed |-> ~a.j.isOpen,
                                         success |-> synced])
                                 ELSE pelLog
                    /\ pem' = [pem EXCEPT
                                 !.documentCounter = counter,
                                 !.unsyncedDocuments =
                                   IF pem.hasPel /\ ~synced
                                   THEN Append(@, document) ELSE @]
                    /\ pcall' = done("emitReceipt", pem.isSessionOpen,
                                     [document |-> document, hash |-> a.ret,
                                      synced |-> synced,
                                      push |-> IF pem.hasPel THEN po ELSE "none"])
  /\ now' = IF journal' # journal THEN now + 1 ELSE now
  /\ UNCHANGED <<journalSide, sessions, pelSide, fnSide, pollSide, auditSide>>

\* closeSession()
PCloseSession ==
  /\ \E st \in IF pem.isSessionOpen /\ journal.isOpen THEN StorageOutcomes ELSE {"stored"},
        jo \in IF pem.isSessionOpen /\ pem.hasPel THEN PelOutcomes ELSE {"ok"},
        ro \in [1..Len(pem.unsyncedDocuments) ->
                IF pem.isSessionOpen /\ pem.hasPel THEN PelOutcomes ELSE {"ok"}] :
       IF notOpen(pem)
       THEN /\ pcall' = fail("closeSession", pem.isSessionOpen, "Session not open")
            /\ UNCHANGED <<journal, pem, storage, pelLog>>
       ELSE
         LET result == closeCash(journal, now, now)
         IN IF ~result.ok
            THEN /\ pcall' = fail("closeSession", pem.isSessionOpen, result.err)
                 /\ UNCHANGED <<journal, pem, storage, pelLog>>
            ELSE IF st = "error"
            THEN /\ journal' = result.j
                 /\ pcall' = fail("closeSession", pem.isSessionOpen, "StorageError")
                 /\ UNCHANGED <<pem, storage, pelLog>>
            ELSE
              LET journalData == exportJournal(result.j)
                  retries ==
                    [i \in 1..Len(pem.unsyncedDocuments) |->
                       [kind |-> "document", session |-> sessions,
                        numero |-> pem.unsyncedDocuments[i].numero,
                        by |-> "closeSession", sealed |-> ~result.j.isOpen,
                        success |-> sendDocument(ro[i]).success]]
                  journalSynced ==
                    pem.hasPel /\ sendJournal(journalAnswer(journalData, jo)).success
              IN /\ journal' = result.j
                 /\ storage' = [storage EXCEPT
                                  !.journals = mapSet(@, dateOf(now), journalData)]
                 /\ pelLog' = IF pem.hasPel
                              THEN pelLog \o retries \o
                                   <<[kind |-> "journal", session |-> sessions,
                                      numero |-> 0, by |-> "closeSession",
                                      sealed |-> ~result.j.isOpen,
                                      success |-> journalSynced]>>
                              ELSE pelLog
                 /\ pem' = [pem EXCEPT !.isSessionOpen = FALSE]
                 /\ pcall' = done("closeSession", pem.isSessionOpen,
                                  [totalDocuments |-> result.ret.totalDocuments,
                                   totalAmount |-> result.ret.totalAmount,
                                   journalSynced |-> journalSynced,
                                   unsyncedDocuments |-> Len(pem.unsyncedDocuments),
                                   journal |-> journalData,
                                   push |-> IF pem.hasPel THEN jo ELSE "none"])
  /\ now' = IF journal' # journal THEN now + 1 ELSE now
  /\ UNCHANGED <<journalSide, sessions, pelSide, fnSide, pollSide, auditSide>>

PNext ==
  \/ POpenSession
  \/ PEmitReceipt
  \/ PCloseSession

SpecPEM == PInit /\ [][PNext]_vars

\* The DOCUMENT entries appended since the last OPEN entry.
RECURSIVE lastOpen(_)
lastOpen(entries) ==
  IF entries = <<>> THEN 0
  ELSE IF entries[Len(entries)].type = "AA" THEN Len(entries)
  ELSE lastOpen(SubSeq(entries, 1, Len(entries) - 1))

docsSinceOpen(entries) ==
  documentsOf(SubSeq(entries, lastOpen(entries) + 1, Len(entries)))

countOf(entries, type) == Len(SelectSeq(entries, LAMBDA e : e.type = type))

\* C6: emitReceipt on a session that is not open (never opened, or closed)
\* fails with the state error 'Session not open', and openSession on an open
\* session fails with the state error 'Session already open'.
C6_StateErrors ==
  /\ (pcall.op = "emitReceipt" /\ ~pcall.pre)
       => (~pcall.ok /\ pcall.err = "Session not open")
  /\ (pcall.op = "openSession" /\ pcall.pre)
       => (~pcall.ok /\ pcall.err = "Session already open")

C6_Witness ==
  /\ sessions >= 1
  /\ countOf(journal.entries, "CC") >= 1
  /\ pcall.op = "emitReceipt"
  /\ ~pcall.pre
  /\ pcall.err = "Session not open"

\* C7: a successful closeSession reports the count and the summed amounts of
\* exactly the DOCUMENT entries appended since the matching OPEN.
C7_TotalsSinceOpen ==
  (pcall.op = "closeSession" /\ pcall.ok) =>
    /\ pcall.ret.totalDocuments = Len(docsSinceOpen(journal.entries))
    /\ pcall.ret.totalAmount = sumAmounts(docsSinceOpen(journal.entries))

\* C8: the journal exported by a successful closeSession holds one session:
\* its first entry is the only OPEN and its last entry the only CLOSE.
C8_OneSessionPerJournal ==
  (pcall.op = "closeSession" /\ pcall.ok) =>
    LET es == pcall.ret.journal.entries
    IN /\ es[1].type = "AA"
       /\ es[Len(es)].type = "CC"
       /\ countOf(es, "AA") = 1
       /\ countOf(es, "CC") = 1

\* C9: when storing the receipt locally fails, emitReceipt fails and the
\* receipt has no DOCUMENT entry in the journal and was not pushed to PEL.
C9_FailedStoreNotEmitted ==
  (pcall.op = "emitReceipt" /\ pcall.err = "StorageError") =>
    /\ ~pcall.ok
    /\ \A i \in 1..Len(journal.entries) :
         journal.entries[i].data # pcall.ret.document
    /\ \A i \in 1..Len(pelLog) :
         ~(pelLog[i].kind = "document" /\ pelLog[i].session = sessions
           /\ pelLog[i].numero = pcall.ret.document.numero)

\* C10: when the push of a receipt fails or times out, emitReceipt succeeds
\* with synced = false, the receipt is stored locally and is put on the
\* unsynced backlog; a receipt of the current session whose push failed is
\* on the backlog in every later state of that session.
C10_PushFailureQueued ==
  /\ (pcall.op = "emitReceipt" /\ pcall.ok /\ pcall.ret.push \in {"failed", "timeout"})
       => /\ ~pcall.ret.synced
          /\ pem.unsyncedDocuments # <<>>
          /\ pem.unsyncedDocuments[Len(pem.unsyncedDocuments)] = pcall.ret.document
          /\ \E i \in 1..Len(storage.documents) :
               storage.documents[i].value = pcall.ret.document
  /\ \A i \in 1..Len(pelLog) :
       (pelLog[i].kind = "document" /\ ~pelLog[i].sealed /\ ~pelLog[i].success
        /\ pelLog[i].session = sessions)
         => \E k \in 1..Len(pem.unsyncedDocuments) :
              pem.unsyncedDocuments[k].numero = pelLog[i].numero

C10_Witness ==
  /\ pcall.op = "emitReceipt"
  /\ pcall.ok
  /\ pcall.ret.push = "timeout"
  /\ Len(pem.unsyncedDocuments) = 2

\* C29: of two receipts appended to the journal in the same session (no
\* OPEN entry between them), the later one has the greater document number.
C29_NumbersIncreaseInSession ==
  \A i, k \in 1..Len(journal.entries) :
    (/\ i < k
     /\ journal.entries[i].type = "DC"
     /\ journal.entries[k].type = "DC"
     /\ \A m \in i..k : journal.entries[m].type # "AA")
      => journal.entries[i].data.numero < journal.entries[k].data.numero

C29_Witness ==
  /\ pcall.op = "emitReceipt"
  /\ pcall.ok
  /\ Len(journal.entries) = 3
  /\ journal.entries[2].type = "DC"
  /\ journal.entries[3].type = "DC"
  /\ journal.entries[2].data.numero = 1
  /\ journal.entries[3].data.numero = 2

\* The numbers of the receipts of session s that were pushed to PEL and
\* that no push has got an acknowledgement for.
unacknowledged(s) ==
  {pelLog[i].numero : i \in {m \in 1..Len(pelLog) :
                               pelLog[m].kind = "document" /\ pelLog[m].session = s}}
  \ {pelLog[i].numero : i \in {m \in 1..Len(pelLog) :
                                pelLog[m].kind = "document" /\ pelLog[m].session = s
                                /\ pelLog[m].success}}

\* C32: the unsyncedDocuments of the closeSession summary is the number of
\* receipts of the session that PEL has not acknowledged when closeSession
\* returns.
C32_UnsyncedCountIsUnacknowledged ==
  (pcall.op = "closeSession" /\ pcall.ok)
    => pcall.ret.unsyncedDocuments = Cardinality(unacknowledged(sessions))

\* C33: when the request that pushes the journal reaches PEL, the journal
\* pushed has the properties POST /api/journal validates and the summary
\* reports the journal as synced.
C33_ExportedJournalAccepted ==
  (pcall.op = "closeSession" /\ pcall.ok /\ pcall.ret.push = "ok")
    => /\ validateJournal(pcall.ret.journal)
       /\ pcall.ret.journalSynced

\* C35: a receipt in the local store of the PEM is still there, unchanged,
\* after any later call.
C35_LocalReceiptsStay ==
  [][\A i \in 1..Len(storage.documents) :
       \E k \in 1..Len(storage'.documents) :
         storage'.documents[k].value = storage.documents[i].value]_vars

\* C39: between calls the PEMManager's isSessionOpen and its journal's
\* isOpen agree.
C39_OpenFlagsAgree ==
  pem.isSessionOpen = journal.isOpen

\* C11: every push of a backlog receipt that closeSession makes reaches PEL
\* while the journal is not yet sealed (no CLOSE entry appended), hence also
\* before the sealed journal is pushed.
C11_RetriesBeforeSeal ==
  \A i \in 1..Len(pelLog) :
    (pelLog[i].kind = "document" /\ pelLog[i].by = "closeSession")
      => ~pelLog[i].sealed

(***************************************************************************)
(* PELServer and its SQLDatabase                                           *)
(***************************************************************************)
\* LIMIT of SQLDatabase.listDocuments when the filter names none.
ListLimit == 100

receipt(vat, pemId, numero, dataOra, riepilogo, total) ==
  [vat |-> vat, pem |-> pemId, numero |-> numero, dataOra |-> dataOra,
   dettaglioLinee |-> <<>>, datiRiepilogo |-> riepilogo, importoTotale |-> total]

\* validateDocument: datiGenerali.numero, datiGenerali.dataOra,
\* identificativoPEM, contribuente, dettaglioLinee and datiRiepilogo must be
\* there.
validateDocument(doc) ==
  {"numero", "dataOra", "pem", "vat", "dettaglioLinee", "datiRiepilogo"}
    \subseteq DOMAIN doc

vatGroup(rate, imponibile, imposta) ==
  [aliquotaIVA |-> rate, imponibile |-> imponibile, imposta |-> imposta]

\* The receipts PEM devices post: two of device P1 of taxpayer V1, one of
\* device P2 of taxpayer V2.
PelDocuments ==
  {receipt("V1", "P1", 1, 1, <<vatGroup(10, 455, 45)>>, 500),
   receipt("V1", "P1", 2, 2, <<vatGroup(10, 273, 27), vatGroup(22, 82, 18)>>, 400),
   receipt("V2", "P2", 1, 3, <<vatGroup(22, 82, 18)>>, 100)}

voce(n, importo) ==
  [numeroProgressivo |-> n, dataOra |-> n, tipo |-> "DC", importo |-> importo]

\* The journals PEM devices post for device P1 on day 0: one whose declared
\* total matches its entries, one whose total does not.
PelJournals ==
  {[versione |-> "1.0", vat |-> "V1", pem |-> "P1", date |-> 0, generated |-> 4,
    voci |-> <<voce(1, 500), voce(2, 400)>>, importoTotaleGiornata |-> t]
     : t \in {900, 800}}

RECURSIVE sumVoci(_)
sumVoci(voci) ==
  IF voci = <<>> THEN 0 ELSE voci[1].importo + sumVoci(Tail(voci))

abs(x) == IF x < 0 THEN -x ELSE x

\* The pairs <<calculatedTotal, expectedTotal>>, in cents, one cent apart,
\* whose doubles differ by more than the double 0.01: calculatedTotal a
\* multiple of 0.50 up to 6.00.
RoundedApart ==
  {<<50, 49>>, <<50, 51>>, <<100, 99>>, <<100, 101>>, <<150, 149>>, <<150, 151>>,
   <<200, 199>>}

\* Math.abs(calculatedTotal - expectedTotal) > 0.01.  Without a declared
\* total the difference is NaN, and NaN > 0.01 is false.
totalMismatch(j) ==
  IF "importoTotaleGiornata" \notin DOMAIN j THEN FALSE
  ELSE \/ abs(sumVoci(j.voci) - j.importoTotaleGiornata) > 1
       \/ <<sumVoci(j.voci), j.importoTotaleGiornata>> \in RoundedApart

\* verifyJournalIntegrity: at least one entry, entries numbered 1..N and
\* complete, and the total not mismatching.
verifyJournalIntegrity(j) ==
  /\ j.voci # <<>>
  /\ \A i \in 1..Len(j.voci) :
       /\ j.voci[i].numeroProgressivo = i
       /\ j.voci[i].dataOra # 0
       /\ j.voci[i].tipo # ""
       /\ "importo" \in DOMAIN j.voci[i]
  /\ ~totalMismatch(j)

\* (mutant: the anomaly is logged but not stored)
reportAnomaly_NotStored(files, pemId, date, t) == files

\* reportAnomaly: the anomaly is stored at anomalies/<pemId>/<timestamp>.json;
\* its details name the journal's dataRiferimento.
reportAnomaly(files, pemId, date, t) ==
  files \cup {<<"anomalies", pemId, t, date>>}

\* ORDER BY datetime DESC
RECURSIVE byDatetimeDesc(_)
byDatetimeDesc(rows) ==
  IF rows = {} THEN <<>>
  ELSE LET first == CHOOSE r \in rows : \A q \in rows : q.datetime <= r.datetime
       IN <<first>> \o byDatetimeDesc(rows \ {first})

\* SQLDatabase.listDocuments(filter): the filter's emissionPointId, dateFrom
\* and dateTo are not read; only limit and offset are.
listDocuments(db, pemId, dateFrom, dateTo) ==
  LET all == byDatetimeDesc(db.documents)
      n == IF Len(all) < ListLimit THEN Len(all) ELSE ListLimit
  IN [i \in 1..n |-> all[i].data]

\* SQLDatabase.saveDocument: INSERT OR REPLACE on (vat_number, pem_id,
\* document_number).
saveDocument(db, d) ==
  [db EXCEPT !.documents =
     {r \in @ : <<r.vat, r.pem, r.numero>> # <<d.vat, d.pem, d.numero>>}
     \cup {[vat |-> d.vat, pem |-> d.pem, numero |-> d.numero,
             datetime |-> d.dataOra,
             hash |-> IF "hash" \in DOMAIN d THEN d.hash ELSE "NULL",
             data |-> d]}]

\* SQLDatabase.getDocumentByHash: the rows whose hash column is the hash
\* asked for; dbGet returns one of them, or nothing.
getDocumentByHash(db, hash) == {r.data : r \in {q \in db.documents : q.hash = hash}}

\* SQLDatabase.saveJournal: INSERT OR REPLACE on (vat_number, pem_id,
\* reference_date).
saveJournal(db, j) ==
  [db EXCEPT !.journals =
     {r \in @ : <<r.vat, r.pem, r.date>> # <<j.vat, j.pem, j.date>>}
     \cup {[vat |-> j.vat, pem |-> j.pem, date |-> j.date, data |-> j]}]

\* (mutant: a plain insert into a table without the primary key)
saveDailyReceipts_InsertOnly(db, receipts) ==
  [db EXCEPT !.daily =
     @ \cup {[vat |-> receipts.vat, pem |-> receipts.pem, date |-> receipts.date,
              data |-> receipts, outcome |-> "null"]}]

\* SQLDatabase.saveDailyReceipts: INSERT OR REPLACE on (vat_number, pem_id,
\* reference_date); the replaced row's outcome column is gone with it.
saveDailyReceipts(db, receipts) ==
  [db EXCEPT !.daily =
     {r \in @ : <<r.vat, r.pem, r.date>> # <<receipts.vat, receipts.pem, receipts.date>>}
     \cup {[vat |-> receipts.vat, pem |-> receipts.pem, date |-> receipts.date,
             data |-> receipts, outcome |-> "null"]}]

RECURSIVE sumTotals(_)
sumTotals(documents) ==
  IF documents = <<>> THEN 0
  ELSE documents[1].importoTotale + sumTotals(Tail(documents))

\* vatMap after one more riepilogo: the group of its rate grows, or a new
\* group is appended.
addGroup(vatMap, g) ==
  IF \E i \in 1..Len(vatMap) : vatMap[i].aliquotaIVA = g.aliquotaIVA
  THEN [i \in 1..Len(vatMap) |->
          IF vatMap[i].aliquotaIVA = g.aliquotaIVA
          THEN [vatMap[i] EXCEPT !.imponibile = @ + g.imponibile,
                                 !.imposta = @ + g.imposta]
          ELSE vatMap[i]]
  ELSE Append(vatMap, g)

RECURSIVE addGroups(_, _)
addGroups(vatMap, riepilogo) ==
  IF riepilogo = <<>> THEN vatMap
  ELSE addGroups(addGroup(vatMap, riepilogo[1]), Tail(riepilogo))

RECURSIVE vatMapOf(_, _)
vatMapOf(vatMap, documents) ==
  IF documents = <<>> THEN vatMap
  ELSE vatMapOf(addGroups(vatMap, documents[1].datiRiepilogo), Tail(documents))

\* The CorrispettiviGiornalieri generateDailyReceipts builds from the
\* documents it read.
dailyReceiptsOf(j, documents, t) ==
  [vat |-> documents[1].vat,
   pem |-> j.pem,
   date |-> j.date,
   dataOraTrasmissione |-> t,
   numeroDocumenti |-> Len(documents),
   importoTotale |-> sumTotals(documents),
   riepilogoIVA |-> vatMapOf(<<>>, documents)]

totalsOf(receipts) ==
  [numeroDocumenti |-> receipts.numeroDocumenti,
   importoTotale |-> receipts.importoTotale,
   riepilogoIVA |-> receipts.riepilogoIVA]

(***************************************************************************)
(* SpecPEL: the PEL server under concurrent requests.  A request handler   *)
(* runs to its response; the generateDailyReceipts call it starts goes on  *)
(* by itself, one awaited call at a time.                                  *)
(***************************************************************************)
LInit ==
  /\ now = 0
  /\ journal = NewJournal
  /\ JournalIdle
  /\ PEMIdle
  /\ PELIdle
  /\ FnIdle
  /\ AuditIdle
  /\ PollIdle

\* POST /api/document with the body d: 400 for a body validateDocument
\* refuses; else the JSON is stored, the row saved, and 200.
postDocument(d) ==
  IF ~validateDocument(d)
  THEN /\ presp' = [status |-> 400]
       /\ UNCHANGED <<pdb, pfiles>>
  ELSE /\ pfiles' = pfiles \cup {<<"documents", d.pem, dateOf(d.dataOra), d.numero>>}
       /\ pdb' = saveDocument(pdb, d)
       /\ presp' = [status |-> 200]

PostDocument ==
  /\ \E d \in PelDocuments : postDocument(d)
  /\ UNCHANGED <<now, journal, journalSide, pemSide, fnSide, pollSide, auditSide, tasks, adeLog, aggLog>>

\* POST /api/journal with the body j: 400 for a body validateJournal
\* refuses; else the anomaly of a failed integrity check and the JSON are
\* stored, the row is saved, generateDailyReceipts is started, and 200.
\* saveJournal reads journal.contribuente.partitaIVA: without contribuente
\* it throws, after the files were stored, and the answer is 500.
postJournal(j) ==
  IF ~validateJournal(j)
  THEN /\ presp' = [status |-> 400]
       /\ UNCHANGED <<now, pdb, pfiles, tasks>>
  ELSE /\ pfiles' = (IF verifyJournalIntegrity(j) THEN pfiles
                      ELSE reportAnomaly(pfiles, j.pem, j.date, now))
            \cup {<<"journals", j.pem, j.date, j.generated>>}
       /\ IF "vat" \notin DOMAIN j
          THEN /\ presp' = [status |-> 500]
               /\ UNCHANGED <<pdb, tasks>>
          ELSE /\ pdb' = saveJournal(pdb, j)
               /\ tasks' = Append(tasks, [journal |-> j, pc |-> "list",
                                          documents |-> <<>>, daily |-> <<>>])
               /\ presp' = [status |-> 200]
       /\ now' = now + 1

PostJournal ==
  /\ Len(tasks) < MaxIngestions
  /\ \E j \in PelJournals : postJournal(j)
  /\ UNCHANGED <<journal, journalSide, pemSide, fnSide, pollSide, auditSide, adeLog, aggLog>>

\* generateDailyReceipts: listDocuments returns; with no document the call
\* ends here, otherwise the daily receipts are built and handed to the
\* database.
AggregateList ==
  /\ \E i \in 1..Len(tasks) :
       /\ tasks[i].pc = "list"
       /\ LET t == tasks[i]
              documents == listDocuments(pdb, t.journal.pem, t.journal.date,
                                         t.journal.date)
          IN tasks' = [tasks EXCEPT ![i] =
               IF documents = <<>>
               THEN [t EXCEPT !.pc = "skipped"]
               ELSE [t EXCEPT !.pc = "save", !.documents = documents,
                              !.daily = dailyReceiptsOf(t.journal, documents, now)]]
  /\ UNCHANGED <<now, journal, journalSide, pemSide, fnSide, pollSide, auditSide, pdb, pfiles, adeLog, aggLog, presp>>

\* generateDailyReceipts: saveDailyReceipts runs.
AggregateSave ==
  /\ \E i \in 1..Len(tasks) :
       /\ tasks[i].pc = "save"
       /\ pdb' = saveDailyReceipts(pdb, tasks[i].daily)
       /\ tasks' = [tasks EXCEPT ![i].pc = "transmit"]
       /\ aggLog' = aggLog \cup {
            [task |-> i, journal |-> tasks[i].journal,
             documents |-> tasks[i].documents,
             key |-> <<tasks[i].daily.vat, tasks[i].daily.pem, tasks[i].daily.date>>,
             rows |-> {r \in pdb'.daily :
                        <<r.vat, r.pem, r.date>> =
                        <<tasks[i].daily.vat, tasks[i].daily.pem, tasks[i].daily.date>>}]}
  /\ UNCHANGED <<now, journal, journalSide, pemSide, fnSide, pollSide, auditSide, pfiles, adeLog, presp>>

\* generateDailyReceipts: trasmissioneCorrispettivi is answered, or fails.
AggregateTransmit ==
  /\ \E i \in 1..Len(tasks), answered \in BOOLEAN :
       /\ tasks[i].pc = "transmit"
       /\ adeLog' = IF answered
                    THEN adeLog \cup {[task |-> i, daily |-> tasks[i].daily]}
                    ELSE adeLog
       /\ tasks' = [tasks EXCEPT ![i].pc = IF answered THEN "done" ELSE "failed"]
  /\ UNCHANGED <<now, journal, journalSide, pemSide, fnSide, pollSide, auditSide, pdb, pfiles, aggLog, presp>>

LNext ==
  \/ PostDocument
  \/ PostJournal
  \/ AggregateList
  \/ AggregateSave
  \/ AggregateTransmit

SpecPEL == LInit /\ [][LNext]_vars

keyOf(r) == <<r.vat, r.pem, r.date>>

\* The generateDailyReceipts call has written its row, or has ended without.
aggregated(t) == t.pc \in {"skipped", "transmit", "done", "failed"}

\* The totals of the rows stored under the call's key right after call i
\* wrote its row (none when it skipped).
totalsAfter(i) ==
  UNION {{totalsOf(r.data) : r \in a.rows} : a \in {b \in aggLog : b.task = i}}

anomaliesOf(files) == {f \in files : f[1] = "anomalies"}

\* The declared total of the day matches the sum of the entries' amounts
\* within one cent.
totalMatches(j) ==
  sumVoci(j.voci) - j.importoTotaleGiornata \in {-1, 0, 1}

\* C12: an ingestion of a journal whose declared total does not match its
\* entries is answered with 200, the journal is stored (file and database
\* row) and a new anomaly record naming its device and date is stored; an
\* ingestion of a journal whose total matches stores the journal and leaves
\* the anomaly records as they were.
C12_AnomalyOnlyForFailedCheck ==
  [][\A j \in PelJournals :
       (Len(tasks') = Len(tasks) + 1 /\ tasks'[Len(tasks')].journal = j)
         => /\ presp'.status = 200
            /\ [vat |-> j.vat, pem |-> j.pem, date |-> j.date, data |-> j]
                 \in pdb'.journals
            /\ <<"journals", j.pem, j.date, j.generated>> \in pfiles'
            /\ totalMatches(j) => anomaliesOf(pfiles') = anomaliesOf(pfiles)
            /\ ~totalMatches(j)
                 => \E f \in anomaliesOf(pfiles') \ anomaliesOf(pfiles) :
                      f[2] = j.pem /\ f[4] = j.date]_vars

\* A journal that failed the check and one that passed it have both been
\* ingested: one anomaly record is stored.
C12_Witness ==
  /\ Len(tasks) = 2
  /\ ~totalMatches(tasks[1].journal)
  /\ totalMatches(tasks[2].journal)
  /\ Cardinality(anomaliesOf(pfiles)) = 1
  /\ presp.status = 200

\* C13: a DailyReport row is written, and a report transmitted, only by the
\* aggregation of a journal that passed the integrity check.
C13_AggregationOnlyIfVerified ==
  /\ \A a \in aggLog : verifyJournalIntegrity(a.journal)
  /\ \A a \in adeLog : verifyJournalIntegrity(tasks[a.task].journal)

(***************************************************************************)
(* SpecIntegrity: verifyJournalIntegrity applied to one received journal.  *)
(***************************************************************************)
\* Entry amounts: multiples of 0.50, whose sums are exact in doubles.
Importi == {50 * k : k \in 0..MaxAmount}

\* The entries a received journal may carry: complete ones, and ones with an
\* empty dataOra, an empty tipo, or no importo.
VoceInputs ==
  {[numeroProgressivo |-> n, dataOra |-> 1, tipo |-> "DC", importo |-> a]
     : n \in 1..MaxVoci, a \in Importi}
  \cup {[numeroProgressivo |-> n, dataOra |-> 0, tipo |-> "DC", importo |-> 50]
           : n \in 1..MaxVoci}
  \cup {[numeroProgressivo |-> n, dataOra |-> 1, tipo |-> "", importo |-> 50]
           : n \in 1..MaxVoci}
  \cup {[numeroProgressivo |-> n, dataOra |-> 1, tipo |-> "DC"] : n \in 1..MaxVoci}

VociInputs == UNION {[1..n -> VoceInputs] : n \in 0..MaxVoci}

RECURSIVE sumPresent(_)
sumPresent(voci) ==
  IF voci = <<>> THEN 0
  ELSE (IF "importo" \in DOMAIN voci[1] THEN voci[1].importo ELSE 0)
       + sumPresent(Tail(voci))

\* The journals received with the entries v: with a declared total within
\* two cents of the sum of the amounts present or 1.00 off, or with no
\* declared total.
IntegrityInputs(v) ==
  {[versione |-> "1.0", vat |-> "V1", pem |-> "P1", date |-> 0,
    generated |-> 4, voci |-> v]}
  \cup {[versione |-> "1.0", vat |-> "V1", pem |-> "P1", date |-> 0,
          generated |-> 4, voci |-> v, importoTotaleGiornata |-> t]
           : t \in {sumPresent(v) + d : d \in {-2, -1, 0, 1, 2, 100}} \cap Nat}

IInit ==
  /\ now = 0
  /\ journal = NewJournal
  /\ JournalIdle
  /\ PEMIdle
  /\ PELIdle
  /\ \E v \in VociInputs : fin \in IntegrityInputs(v)
  /\ fout = NotReturned
  /\ AuditIdle
  /\ PollIdle

VerifyIntegrity ==
  /\ ~fout.done
  /\ fout' = [done |-> TRUE, ret |-> verifyJournalIntegrity(fin)]
  /\ UNCHANGED <<now, journal, journalSide, pemSide, pelSide, fin, auditSide, pollSide>>

INext == VerifyIntegrity

SpecIntegrity == IInit /\ [][INext]_vars

\* What C14 says the check accepts: entries numbered 1..N in order, each
\* with a timestamp, a type and an amount, and a declared total within one
\* cent of the sum of the amounts.
acceptedAsStated(j) ==
  /\ \A i \in 1..Len(j.voci) :
       /\ j.voci[i].numeroProgressivo = i
       /\ j.voci[i].dataOra # 0
       /\ j.voci[i].tipo # ""
       /\ "importo" \in DOMAIN j.voci[i]
  /\ "importoTotaleGiornata" \in DOMAIN j
  /\ sumPresent(j.voci) - j.importoTotaleGiornata \in {-1, 0, 1}

\* C14: the integrity check accepts a received journal if and only if its
\* entries are numbered 1..N in order, every entry has a timestamp, a type
\* and an amount, and the sum of the amounts is within 0.01 of the declared
\* total.
C14_AcceptsIffWellFormed ==
  fout.done => (fout.ret <=> acceptedAsStated(fin))

(***************************************************************************)
(* SpecBuild: DocumentBuilder.build applied to one list of lines.          *)
(***************************************************************************)
\* <<unitPrice in cents, vatRate>> of the lines handed to build.  On every
\* list of these lines the doubles of build round as the exact quotients do.
LineKinds == {<<13, 4>>, <<75, 20>>, <<250, 10>>, <<-100, 22>>}

BuildLines == {line(q, k[1], k[2]) : q \in 1..MaxQuantity, k \in LineKinds}

BuildInputs == UNION {[1..n -> BuildLines] : n \in 0..MaxLines}

BInit ==
  /\ now = 0
  /\ journal = NewJournal
  /\ JournalIdle
  /\ PEMIdle
  /\ PELIdle
  /\ fin \in BuildInputs
  /\ fout = NotReturned
  /\ AuditIdle
  /\ PollIdle

\* build(lines, documentNumber): no path of it throws.
Build ==
  /\ ~fout.done
  /\ fout' = [done |-> TRUE, ret |-> [ok |-> TRUE, document |-> build(fin, 1, now)]]
  /\ UNCHANGED <<now, journal, journalSide, pemSide, pelSide, fin, auditSide, pollSide>>

BNext == Build

SpecBuild == BInit /\ [][BNext]_vars

RECURSIVE sumGroups(_)
sumGroups(riepilogo) ==
  IF riepilogo = <<>> THEN 0
  ELSE riepilogo[1].imponibile + riepilogo[1].imposta + sumGroups(Tail(riepilogo))

\* C15: the importoTotale of a receipt the builder returns is within one cent
\* of the sum, over its datiRiepilogo groups, of imponibile + imposta.
C15_TotalMatchesGroups ==
  (fout.done /\ fout.ret.ok)
    => fout.ret.document.importoTotale - sumGroups(fout.ret.document.datiRiepilogo)
         \in {-1, 0, 1}

\* C17: build fails, and returns no receipt, when the list of lines is empty
\* or a line has a negative unitPrice.
C17_InvalidLinesRejected ==
  (fout.done /\ (fin = <<>> \/ \E i \in 1..Len(fin) : fin[i].unitPrice < 0))
    => ~fout.ret.ok

(***************************************************************************)
(* SpecAggregate: the aggregation of generateDailyReceipts applied to the  *)
(* receipts the builder made of some line lists.                           *)
(***************************************************************************)
ReceiptA == <<line(2, 250, 10)>>
ReceiptB == <<line(1, 500, 10)>>

AggregateLines == LineInputs \cup {ReceiptA, ReceiptB} \cup {<<l>> : l \in BuildLines}

\* The receipt as PEL stores it: the builder's document with the vatNumber
\* and pemId of the builder's configuration.
receiptOf(document) ==
  receipt("V1", "P1", document.numero, document.dataOra, document.datiRiepilogo,
          document.importoTotale)

emitted(lists) == [i \in 1..Len(lists) |-> receiptOf(build(lists[i], i, i))]

AggregateInputs ==
  UNION {{emitted(ls) : ls \in [1..n -> AggregateLines]} : n \in 0..MaxDocuments}

AInit ==
  /\ now = 0
  /\ journal = NewJournal
  /\ JournalIdle
  /\ PEMIdle
  /\ PELIdle
  /\ fin \in AggregateInputs
  /\ fout = NotReturned
  /\ AuditIdle
  /\ PollIdle

\* generateDailyReceipts from the documents listed to the daily receipts built.
Aggregate ==
  /\ ~fout.done
  /\ fout' = [done |-> TRUE,
               ret |-> IF fin = <<>> THEN <<>>
                       ELSE dailyReceiptsOf(CHOOSE j \in PelJournals : TRUE, fin, now)]
  /\ UNCHANGED <<now, journal, journalSide, pemSide, pelSide, fin, auditSide, pollSide>>

ANext == Aggregate

SpecAggregate == AInit /\ [][ANext]_vars

\* C16: aggregating receipt A (2 x 2.50 at 10%) and receipt B (1 x 5.00 at
\* 10%) yields one 10% group with taxable 9.09 and tax 0.91, and total 10.00.
C16_ScenarioAggregate ==
  (fout.done /\ fin = emitted(<<ReceiptA, ReceiptB>>))
    => /\ fout.ret.riepilogoIVA = <<vatGroup(10, 909, 91)>>
       /\ fout.ret.importoTotale = 1000

\* C4: the tax authority receives the DailyReport of one (vatNumber,
\* deviceId, referenceDate) at most once.
C4_TransmittedAtMostOnce ==
  \A a, b \in adeLog : keyOf(a.daily) = keyOf(b.daily) => a = b

\* C5: in every state, whatever the interleaving of the ingestions, at most
\* one DailyReport is stored per (vatNumber, deviceId, referenceDate).
C5_AtMostOneReportPerKey ==
  \A r, q \in pdb.daily : keyOf(r) = keyOf(q) => r = q

\* Two ingestions of one period overlap: the first one read its documents
\* before the second was posted and wrote its row after the second one's, and
\* one row is stored.
C5_Witness ==
  /\ \E a, b \in aggLog :
       /\ a.task = 1 /\ b.task = 2
       /\ a.key = b.key
       /\ a.documents # b.documents
       /\ tasks[1].daily.dataOraTrasmissione < tasks[2].daily.dataOraTrasmissione
       /\ pdb.daily = a.rows
  /\ Cardinality(pdb.daily) = 1

(***************************************************************************)
(* SpecAudit: the AuditServer.  A request handler runs to its response;    *)
(* the processing it starts goes on by itself, one awaited call at a time. *)
(***************************************************************************)
\* The journals database.listJournals may return for an audit request, most
\* recent first.
AuditJournal(d) == [pem |-> "P1", date |-> d]

JournalResults == {<<>>, <<AuditJournal(0)>>, <<AuditJournal(1), AuditJournal(0)>>}

\* J_<identificativoPEM>_<dataRiferimento>.xml
journalFileName(j) == <<"J", j.pem, j.date>>

\* The hashes an audit request may name: "h1" and "h2" are those of the two
\* receipts below, "h0" is no receipt's.
Hashes == {"h0", "h1", "h2"}

\* A receipt as the PEMManager posts it (emitReceipt returned the hash "h1"
\* for it, the document itself carries none), and a receipt posted with a
\* hash property.
EmittedReceipt == receipt("V1", "P1", 1, 1, <<vatGroup(10, 455, 45)>>, 500)

HashedReceipt ==
  [vat |-> "V1", pem |-> "P1", numero |-> 2, dataOra |-> 2,
   dettaglioLinee |-> <<>>, datiRiepilogo |-> <<vatGroup(10, 455, 45)>>,
   importoTotale |-> 500, hash |-> "h2"]

\* The database the audit server reads: both receipts ingested.
AuditDatabase ==
  saveDocument(saveDocument([documents |-> {}, journals |-> {}, daily |-> {}],
                            EmittedReceipt), HashedReceipt)

HashLists == UNION {[1..n -> Hashes] : n \in 0..MaxHashes}

\* DC_<numero>_<identificativoPEM>_<date>.xml
documentFileName(document) ==
  <<"DC", document.numero, document.pem, dateOf(document.dataOra)>>

FileNames ==
  {journalFileName(AuditJournal(d)) : d \in {0, 1}}
  \cup {documentFileName(d) : d \in {EmittedReceipt, HashedReceipt}}

newJob(type, todo, createdAt) ==
  [type |-> type, status |-> "IN_ELABORAZIONE", files |-> <<>>, pc |-> "query",
   todo |-> todo, found |-> <<>>, failed |-> FALSE, createdAt |-> createdAt,
   inJobs |-> TRUE]

\* (mutant: the processing ends without a status being set)
finishDocumentAudit_NoStatus(job) == [job EXCEPT !.pc = "done"]

\* (mutant: the job is PRONTA whatever was found)
finishDocumentAudit_AlwaysReady(job) ==
  [job EXCEPT !.files = job.found, !.status = "PRONTA", !.pc = "done"]

\* The end of processDocumentAudit: no file, NON_DISPONIBILE; else the files
\* and PRONTA.
finishDocumentAudit(job) ==
  IF job.found = <<>>
  THEN [job EXCEPT !.status = "NON_DISPONIBILE", !.pc = "done"]
  ELSE [job EXCEPT !.files = job.found, !.status = "PRONTA", !.pc = "done"]

\* (mutant: the job is PRONTA as soon as one file is stored)
afterStore_ReadyEarly(job, fileName) ==
  [job EXCEPT !.todo = Tail(job.todo), !.found = Append(job.found, fileName),
              !.files = Append(job.found, fileName), !.status = "PRONTA",
              !.pc = IF Tail(job.todo) = <<>> THEN "done" ELSE "store"]

\* processJournalAudit after storage.store returned: the file is noted, and
\* after the last journal the files are listed and the job is PRONTA.
afterStore(job, fileName) ==
  IF Tail(job.todo) = <<>>
  THEN [job EXCEPT !.todo = <<>>, !.found = Append(job.found, fileName),
                   !.files = Append(job.found, fileName),
                   !.status = "PRONTA", !.pc = "done"]
  ELSE [job EXCEPT !.todo = Tail(job.todo), !.found = Append(job.found, fileName)]

AUInit ==
  /\ now = 0
  /\ journal = NewJournal
  /\ JournalIdle
  /\ PEMIdle
  /\ pdb = AuditDatabase
  /\ pfiles = {}
  /\ tasks = <<>>
  /\ adeLog = {}
  /\ aggLog = {}
  /\ presp = [status |-> 0]
  /\ FnIdle
  /\ AuditIdle
  /\ PollIdle

\* POST /audit/journal
PostAuditJournal ==
  /\ Len(ajobs) < MaxJobs
  /\ ajobs' = Append(ajobs, newJob("journal", <<>>, now))
  /\ aresp' = [op |-> "post", job |-> Len(ajobs) + 1, status |-> 200, body |-> <<>>]
  /\ UNCHANGED <<now, journal, journalSide, pemSide, pelSide, fnSide, pollSide, afiles>>

\* POST /audit/dc: without an array of hashes 406; with an empty array the
\* processing ends before the response is sent.
PostAuditDc ==
  /\ Len(ajobs) < MaxJobs
  /\ \/ /\ aresp' = [op |-> "post", job |-> 0, status |-> 406, body |-> <<>>]
        /\ UNCHANGED ajobs
     \/ \E hash \in HashLists :
          /\ ajobs' = Append(ajobs,
               IF hash = <<>> THEN finishDocumentAudit(newJob("dc", hash, now))
               ELSE newJob("dc", hash, now))
          /\ aresp' = [op |-> "post", job |-> Len(ajobs) + 1, status |-> 200,
                       body |-> <<>>]
  /\ UNCHANGED <<now, journal, journalSide, pemSide, pelSide, fnSide, pollSide, afiles>>

\* processJournalAudit: listJournals returns or throws.
ListJournalsReturns ==
  /\ \E i \in 1..Len(ajobs) :
       /\ ajobs[i].type = "journal"
       /\ ajobs[i].pc = "query"
       /\ \/ ajobs' = [ajobs EXCEPT ![i].status = "NON_DISPONIBILE",
                                    ![i].pc = "done", ![i].failed = TRUE]
          \/ \E journals \in JournalResults :
               ajobs' = [ajobs EXCEPT ![i] =
                 IF journals = <<>>
                 THEN [@ EXCEPT !.status = "NON_DISPONIBILE", !.pc = "done"]
                 ELSE [@ EXCEPT !.todo = journals, !.pc = "store"]]
  /\ UNCHANGED <<now, journal, journalSide, pemSide, pelSide, fnSide, pollSide, afiles, aresp>>

\* processJournalAudit: storage.store of the next journal's XML returns or
\* throws; after the last one the files are listed and the job is PRONTA.
StoreJournalFile ==
  /\ \E i \in 1..Len(ajobs) :
       /\ ajobs[i].type = "journal"
       /\ ajobs[i].pc = "store"
       /\ \/ /\ ajobs' = [ajobs EXCEPT ![i].status = "NON_DISPONIBILE",
                                       ![i].pc = "done", ![i].failed = TRUE]
             /\ UNCHANGED afiles
          \/ LET fileName == journalFileName(Head(ajobs[i].todo))
             IN /\ afiles' = afiles \cup {<<"journal", i, fileName>>}
                /\ ajobs' = [ajobs EXCEPT ![i] = afterStore(@, fileName)]
  /\ UNCHANGED <<now, journal, journalSide, pemSide, pelSide, fnSide, pollSide, aresp>>

\* processDocumentAudit, one hash of the list: getDocumentByHash finds the
\* document and its XML is stored; or it finds none; or a call throws, which
\* is logged.  After the last hash the job ends.
ResolveHash ==
  /\ \E i \in 1..Len(ajobs), thrown \in BOOLEAN :
       /\ ajobs[i].type = "dc"
       /\ ajobs[i].pc = "query"
       /\ LET job == ajobs[i]
              documents == getDocumentByHash(pdb, Head(job.todo))
              outcome == IF thrown THEN "error"
                         ELSE IF documents = {} THEN "notFound" ELSE "stored"
              fileName == IF documents = {} THEN <<>>
                          ELSE documentFileName(CHOOSE d \in documents : TRUE)
              next == [job EXCEPT
                         !.todo = Tail(job.todo),
                         !.found = IF outcome = "stored" THEN Append(@, fileName) ELSE @,
                         !.failed = @ \/ outcome = "error"]
          IN /\ afiles' = IF outcome = "stored"
                          THEN afiles \cup {<<"dc", i, fileName>>} ELSE afiles
             /\ ajobs' = [ajobs EXCEPT ![i] =
                  IF next.todo = <<>> THEN finishDocumentAudit(next) ELSE next]
  /\ UNCHANGED <<now, journal, journalSide, pemSide, pelSide, fnSide, pollSide, aresp>>

\* The job a GET handler finds for the id and the type of its path.
jobOf(i, type) == i \in 1..Len(ajobs) /\ ajobs[i].inJobs /\ ajobs[i].type = type

\* GET /audit/journal/:id/stato and GET /audit/dc/:id/stato
GetStato ==
  /\ \E i \in 0..Len(ajobs), type \in {"journal", "dc"} :
       aresp' = IF ~jobOf(i, type)
                THEN [op |-> "stato", job |-> i, status |-> 404, body |-> <<>>]
                ELSE [op |-> "stato", job |-> i, status |-> 200,
                      body |-> <<ajobs[i].status>>]
  /\ UNCHANGED <<now, journal, journalSide, pemSide, pelSide, fnSide, pollSide, ajobs, afiles>>

\* (mutant: the files are listed whatever the status of the job)
listOf_AnyStatus(job) == [status |-> 200, body |-> job.files]

\* The answer of the list routes for a job that exists: 409 and an error
\* body unless the job is PRONTA, else 200 and the names of its files.
listOf(job) ==
  IF job.status # "PRONTA"
  THEN [status |-> 409, body |-> <<>>]
  ELSE [status |-> 200, body |-> job.files]

\* GET /audit/journal/:id and GET /audit/dc/:id
GetList ==
  /\ \E i \in 0..Len(ajobs), type \in {"journal", "dc"} :
       aresp' = IF ~jobOf(i, type)
                THEN [op |-> "list", job |-> i, status |-> 404, body |-> <<>>]
                ELSE [op |-> "list", job |-> i, status |-> listOf(ajobs[i]).status,
                      body |-> listOf(ajobs[i]).body]
  /\ UNCHANGED <<now, journal, journalSide, pemSide, pelSide, fnSide, pollSide, ajobs, afiles>>

\* GET /audit/journal/:id/zip/:nomeFile and GET /audit/dc/:id/files/:nomeFile
GetFile ==
  /\ \E i \in 0..Len(ajobs), type \in {"journal", "dc"}, nomeFile \in FileNames :
       aresp' = IF ~jobOf(i, type)
                THEN [op |-> "file", job |-> i, status |-> 404, body |-> <<>>]
                ELSE IF <<type, i, nomeFile>> \notin afiles
                THEN [op |-> "file", job |-> i, status |-> 404, body |-> <<>>]
                ELSE [op |-> "file", job |-> i, status |-> 200, body |-> <<nomeFile>>]
  /\ UNCHANGED <<now, journal, journalSide, pemSide, pelSide, fnSide, pollSide, ajobs, afiles>>

AUNext ==
  \/ PostAuditJournal
  \/ PostAuditDc
  \/ ListJournalsReturns
  \/ StoreJournalFile
  \/ ResolveHash
  \/ GetStato
  \/ GetList
  \/ GetFile

SpecAudit == AUInit /\ [][AUNext]_vars

\* C18: a job that is PRONTA lists at least one file, and a list answered
\* 200 is never empty.
C18_ReadyHasArtifacts ==
  /\ \A i \in 1..Len(ajobs) : ajobs[i].status = "PRONTA" => ajobs[i].files # <<>>
  /\ (aresp.op = "list" /\ aresp.status = 200) => aresp.body # <<>>

\* A document audit of two hashes, one of them found, is seen PRONTA and its
\* list is answered with the one file.
C18_Witness ==
  /\ aresp.op = "list"
  /\ aresp.status = 200
  /\ Len(aresp.body) = 1
  /\ ajobs[aresp.job].type = "dc"
  /\ ajobs[aresp.job].status = "PRONTA"

\* C19: the status of a job changes only from IN_ELABORAZIONE, and only to
\* PRONTA or NON_DISPONIBILE.
C19_StatusOnlyLeavesProcessing ==
  [][\A i \in 1..Len(ajobs) :
       ajobs'[i].status # ajobs[i].status
         => /\ ajobs[i].status = "IN_ELABORAZIONE"
            /\ ajobs'[i].status \in {"PRONTA", "NON_DISPONIBILE"}]_vars

\* A journal audit has ended PRONTA after two stores and has since been
\* asked for its state.
C19_Witness ==
  /\ Len(ajobs) = 1
  /\ ajobs[1].type = "journal"
  /\ ajobs[1].status = "PRONTA"
  /\ Len(ajobs[1].files) = 2
  /\ aresp.op = "stato"
  /\ aresp.body = <<"PRONTA">>

\* C20: no list and no download of a job whose processing has failed is
\* answered with a file.
C20_NoArtifactOfFailedJob ==
  [][(/\ aresp' # aresp
      /\ aresp'.op \in {"list", "file"}
      /\ aresp'.job \in 1..Len(ajobs)
      /\ ajobs[aresp'.job].failed
      /\ ajobs[aresp'.job].status = "NON_DISPONIBILE")
       => aresp'.status # 200]_vars

\* C21: a job during whose processing a database or storage call failed is
\* never PRONTA, and has ended NON_DISPONIBILE once its processing is over.
C21_FailureEndsUnavailable ==
  \A i \in 1..Len(ajobs) :
    ajobs[i].failed
      => /\ ajobs[i].status # "PRONTA"
         /\ ajobs[i].pc = "done" => ajobs[i].status = "NON_DISPONIBILE"


\* The hashes under which the stored receipts are known: the one emitReceipt
\* returned for the receipt the PEM posted, and the one the other carries.
storedHashes == {"h1", "h2"}

\* C22: while no call of a document audit job has thrown, each hash the job
\* resolves adds one artifact to the job exactly when the hash is that of a
\* stored receipt, and the job that ends with no artifact is NON_DISPONIBILE,
\* the job that ends with one is PRONTA.
C22_OneArtifactPerStoredHash ==
  [][\A i \in 1..Len(ajobs) :
       (/\ ajobs[i].type = "dc"
        /\ ajobs[i].pc = "query"
        /\ ajobs'[i] # ajobs[i]
        /\ ~ajobs'[i].failed)
         => /\ (Head(ajobs[i].todo) \in storedHashes)
                 <=> (Len(ajobs'[i].found) = Len(ajobs[i].found) + 1)
            /\ ajobs'[i].pc = "done"
                 => (ajobs'[i].status = "PRONTA" <=> ajobs'[i].found # <<>>)]_vars

\* C23: the list route answers 200 with the file names only for a job that
\* is PRONTA; for a job IN_ELABORAZIONE or NON_DISPONIBILE it answers 409
\* with no file name.
C23_ListOnlyWhenReady ==
  [][(aresp' # aresp /\ aresp'.op = "list" /\ aresp'.status # 404)
       => LET job == ajobs[aresp'.job]
          IN /\ job.status = "PRONTA"
                  => aresp'.status = 200 /\ aresp'.body = job.files
             /\ job.status # "PRONTA"
                  => aresp'.status = 409 /\ aresp'.body = <<>>]_vars

C23_Witness ==
  /\ aresp.op = "list"
  /\ aresp.status = 409
  /\ aresp.job \in 1..Len(ajobs)
  /\ ajobs[aresp.job].status = "NON_DISPONIBILE"
  /\ ajobs[aresp.job].found # <<>>

\* ---------------------------------------------------------------------------
\* OutcomePoller
\* ---------------------------------------------------------------------------

\* How many polling cycles a behaviour makes at most.
MaxCycles == 3

\* The largest maxRetries configured.
MaxConfigured == 2

\* getTransmissionKey, for the transmissions of one device on two dates.
PollKeys == {<<"V1", "P1", d>> : d \in {0, 1}}

\* `this.config.maxRetries || 288`: a configured 0 counts as not configured.
effectiveMaxRetries(configured) ==
  IF configured = 0 THEN DefaultMaxRetries ELSE configured

\* Map.set(key, {...transmission, retries: 0}): the entry of the key is
\* replaced where it stands, a new key is added last.
setPending(map, key) ==
  IF \E i \in 1..Len(map) : map[i].key = key
  THEN [i \in 1..Len(map) |->
          IF map[i].key = key THEN [key |-> key, retries |-> 0] ELSE map[i]]
  ELSE Append(map, [key |-> key, retries |-> 0])

\* The map without the keys marked for removal.
RECURSIVE deleteKeys(_, _)
deleteKeys(map, keys) ==
  IF map = <<>> THEN <<>>
  ELSE IF Head(map).key \in keys THEN deleteKeys(Tail(map), keys)
  ELSE <<Head(map)>> \o deleteKeys(Tail(map), keys)

\* SQLDatabase.getDailyReceiptsOutcome: the outcome column of the row, null
\* when there is no row or no outcome.
getDailyReceiptsOutcome(db, key) ==
  IF \E r \in db.daily : <<r.vat, r.pem, r.date>> = key /\ r.outcome # "null"
  THEN (CHOOSE r \in db.daily : <<r.vat, r.pem, r.date>> = key).outcome
  ELSE "null"

\* SQLDatabase.saveDailyReceiptsOutcome: UPDATE of the outcome column of the
\* row of the outcome's key.
saveDailyReceiptsOutcome(db, key, outcome) ==
  [db EXCEPT !.daily =
     {IF <<r.vat, r.pem, r.date>> = key THEN [r EXCEPT !.outcome = outcome] ELSE r
        : r \in @}]

\* The daily receipts of a key, as generateDailyReceipts stores them.
dailyOfKey(key) ==
  [vat |-> key[1], pem |-> key[2], date |-> key[3], dataOraTrasmissione |-> 0,
   numeroDocumenti |-> 1, importoTotale |-> 500,
   riepilogoIVA |-> <<vatGroup(10, 455, 45)>>]

\* The database the poller reads: the daily receipts of both keys stored,
\* neither with an outcome.
PollerDatabase ==
  saveDailyReceipts(
    saveDailyReceipts([documents |-> {}, journals |-> {}, daily |-> {}],
                      dailyOfKey(<<"V1", "P1", 0>>)),
    dailyOfKey(<<"V1", "P1", 1>>))

OInit ==
  /\ now = 0
  /\ journal = NewJournal
  /\ JournalIdle
  /\ PEMIdle
  /\ pdb = PollerDatabase
  /\ pfiles = {}
  /\ tasks = <<>>
  /\ adeLog = {}
  /\ aggLog = {}
  /\ presp = [status |-> 0]
  /\ FnIdle
  /\ AuditIdle
  /\ maxRetries \in 0..MaxConfigured
  /\ pending = <<>>
  /\ cycle = NoCycle

\* OutcomePoller.registerTransmission.  A poll() that holds the entry of the
\* key across an await holds the object that was replaced.
RegisterTransmission ==
  /\ \E key \in PollKeys :
       /\ pending' = setPending(pending, key)
       /\ cycle' = IF cycle.pc = "idle" THEN cycle
                   ELSE IF cycle.pc = "check" /\ cycle.held.key = key
                   THEN [cycle EXCEPT !.held.live = FALSE,
                                      !.registered = @ \cup {key}]
                   ELSE [cycle EXCEPT !.registered = @ \cup {key}]
  /\ UNCHANGED <<now, journal, journalSide, pemSide, pelSide, fnSide, auditSide, maxRetries>>

\* The outcome of a transmission is written to the row by hand, which is
\* what checkOutcome looks for.
OutcomeArrives ==
  /\ \E key \in PollKeys :
       /\ getDailyReceiptsOutcome(pdb, key) = "null"
       /\ pdb' = saveDailyReceiptsOutcome(pdb, key, "esito")
  /\ UNCHANGED <<now, journal, journalSide, pemSide, fnSide, auditSide, pollSide,
                 pfiles, tasks, adeLog, aggLog, presp>>

\* poll() is called by start() or by the interval: it returns at once when
\* nothing is pending, else it starts on the entries of the map.
PollStart ==
  /\ cycle.pc = "idle"
  /\ cycle.count < MaxCycles
  /\ cycle' = IF pending = <<>>
              THEN [cycle EXCEPT !.count = @ + 1]
              ELSE [pc |-> "next", pos |-> 0, held |-> <<>>, toRemove |-> {},
                    count |-> cycle.count + 1, registered |-> {}]
  /\ UNCHANGED <<now, journal, journalSide, pemSide, pelSide, fnSide, auditSide,
                 maxRetries, pending>>

\* poll(), the for loop: the next entry of the map is taken and checkOutcome
\* awaited; after the last entry the keys of toRemove are deleted.
PollNext ==
  /\ cycle.pc = "next"
  /\ IF cycle.pos < Len(pending)
     THEN /\ cycle' = [cycle EXCEPT
                         !.pc = "check", !.pos = @ + 1,
                         !.held = [key |-> pending[cycle.pos + 1].key,
                                   retries |-> pending[cycle.pos + 1].retries,
                                   live |-> TRUE],
                         !.registered = @ \ {pending[cycle.pos + 1].key}]
          /\ UNCHANGED pending
     ELSE /\ pending' = deleteKeys(pending, cycle.toRemove)
          /\ cycle' = [NoCycle EXCEPT !.count = cycle.count]
  /\ UNCHANGED <<now, journal, journalSide, pemSide, pelSide, fnSide, auditSide, maxRetries>>

\* The entry held after one more retry was counted on it; the map shows the
\* count only while it still holds that object.
countRetry(map, held) ==
  IF held.live
  THEN [i \in 1..Len(map) |->
          IF map[i].key = held.key THEN [map[i] EXCEPT !.retries = held.retries + 1]
          ELSE map[i]]
  ELSE map

\* poll(), the body of the loop once checkOutcome has returned: an outcome
\* is saved and the key marked for removal; with no outcome, or when a call
\* throws, the retries of the entry are counted up and the key is marked for
\* removal when they have reached the maximum.
PollCheck ==
  /\ cycle.pc = "check"
  /\ \E thrown \in BOOLEAN :
       LET key == cycle.held.key
           outcome == getDailyReceiptsOutcome(pdb, key)
           expired == cycle.held.retries + 1 >= effectiveMaxRetries(maxRetries)
       IN IF outcome # "null" /\ ~thrown
          THEN /\ pdb' = saveDailyReceiptsOutcome(pdb, key, outcome)
               /\ cycle' = [cycle EXCEPT !.pc = "next", !.held = <<>>,
                                         !.toRemove = @ \cup {key}]
               /\ UNCHANGED pending
          ELSE /\ pending' = countRetry(pending, cycle.held)
               /\ cycle' = [cycle EXCEPT
                              !.pc = "next", !.held = <<>>,
                              !.toRemove = IF expired THEN @ \cup {key} ELSE @]
               /\ UNCHANGED pdb
  /\ UNCHANGED <<now, journal, journalSide, pemSide, fnSide, auditSide, maxRetries,
                 pfiles, tasks, adeLog, aggLog, presp>>

ONext ==
  \/ RegisterTransmission
  \/ OutcomeArrives
  \/ PollStart
  \/ PollNext
  \/ PollCheck

SpecPoller == OInit /\ [][ONext]_vars

pendingKeys == {pending[i].key : i \in 1..Len(pending)}

\* C30: the daily receipts stored for an ingested journal were computed from
\* receipts of the journal's device and reference date only.
C30_ReportFromOwnReceipts ==
  \A a \in aggLog :
    \A k \in 1..Len(a.documents) :
      /\ a.documents[k].pem = a.journal.pem
      /\ dateOf(a.documents[k].dataOra) = a.journal.date

\* C24: every daily receipts the tax authority has answered has its outcome
\* stored on its row, or its key is pending in the outcome poller.
C24_OutcomeStoredOrPending ==
  \A a \in adeLog :
    \/ getDailyReceiptsOutcome(pdb, keyOf(a.daily)) # "null"
    \/ keyOf(a.daily) \in pendingKeys

\* C25: between polling cycles no key is pending whose retry counter exceeds
\* the configured maximum.
C25_DroppedOnceMaxExceeded ==
  cycle.pc = "idle" =>
    \A i \in 1..Len(pending) : pending[i].retries <= maxRetries

\* ---------------------------------------------------------------------------
\* SpecIngest: one POST /api/document or POST /api/journal on an empty PEL,
\* with a body that has any of its properties missing.
\* ---------------------------------------------------------------------------

\* The record r without the properties outside fields.
restrictTo(r, fields) == [f \in fields |-> r[f]]

FullDocument == receipt("V1", "P1", 1, 1, <<vatGroup(10, 455, 45)>>, 500)

FullJournal ==
  [versione |-> "1.0", vat |-> "V1", pem |-> "P1", date |-> 0, generated |-> 4,
   voci |-> <<voce(1, 500)>>, importoTotaleGiornata |-> 500]

IngestBodies ==
  {[kind |-> "document", body |-> restrictTo(FullDocument, fields)]
     : fields \in SUBSET DOMAIN FullDocument}
  \cup {[kind |-> "journal", body |-> restrictTo(FullJournal, fields)]
          : fields \in SUBSET DOMAIN FullJournal}

GInit ==
  /\ now = 0
  /\ journal = NewJournal
  /\ JournalIdle
  /\ PEMIdle
  /\ PELIdle
  /\ fin \in IngestBodies
  /\ fout = NotReturned
  /\ AuditIdle
  /\ PollIdle

IngestDocument ==
  /\ ~fout.done
  /\ fin.kind = "document"
  /\ postDocument(fin.body)
  /\ fout' = [done |-> TRUE, ret |-> presp'.status]
  /\ UNCHANGED <<now, journal, journalSide, pemSide, fin, pollSide, auditSide,
                 tasks, adeLog, aggLog>>

IngestJournal ==
  /\ ~fout.done
  /\ fin.kind = "journal"
  /\ postJournal(fin.body)
  /\ fout' = [done |-> TRUE, ret |-> presp'.status]
  /\ UNCHANGED <<journal, journalSide, pemSide, fin, pollSide, auditSide,
                 adeLog, aggLog>>

GNext ==
  \/ IngestDocument
  \/ IngestJournal

SpecIngest == GInit /\ [][GNext]_vars

\* The body posted lacks a property of the receipt, or of the journal.
incomplete(request) ==
  DOMAIN request.body #
    (IF request.kind = "document" THEN DOMAIN FullDocument ELSE DOMAIN FullJournal)

\* C27: a receipt or a journal posted with a property missing is answered
\* 400, and then no file and no row is stored and no generateDailyReceipts
\* started.
C27_IncompleteBodyRejected ==
  (fout.done /\ incomplete(fin)) =>
    /\ presp.status = 400
    /\ pfiles = {}
    /\ pdb = [documents |-> {}, journals |-> {}, daily |-> {}]
    /\ tasks = <<>>

\* ---------------------------------------------------------------------------
\* SpecRetention: journal audit jobs, the clock in hours, and the hourly
\* sweep of startJobCleanup.
\* ---------------------------------------------------------------------------

\* How far the clock runs, in hours.
MaxHours == 4

\* AuditServerConfig.jobRetentionMs as configured, in hours.
jobRetentionMs == 2

\* (mutant: every job is swept)
expired_Always(job, t) == TRUE

\* jobAge > retentionMs
expired(job, t) == t - job.createdAt > jobRetentionMs

\* An hour passes.
Hour ==
  /\ now < MaxHours
  /\ now' = now + 1
  /\ UNCHANGED <<journal, journalSide, pemSide, pelSide, fnSide, pollSide, auditSide>>

\* The callback of startJobCleanup's interval: every job of the map whose
\* age is above the retention is deleted from the map.
Sweep ==
  /\ ajobs' = [i \in 1..Len(ajobs) |->
                 IF ajobs[i].inJobs /\ expired(ajobs[i], now)
                 THEN [ajobs[i] EXCEPT !.inJobs = FALSE]
                 ELSE ajobs[i]]
  /\ UNCHANGED <<now, journal, journalSide, pemSide, pelSide, fnSide, pollSide,
                 afiles, aresp>>

RNext ==
  \/ PostAuditJournal
  \/ ListJournalsReturns
  \/ StoreJournalFile
  \/ GetStato
  \/ Hour
  \/ Sweep

\* The interval keeps firing while the server runs.
SpecRetention == AUInit /\ [][RNext]_vars /\ WF_vars(Sweep)

terminal(job) == job.status \in {"PRONTA", "NON_DISPONIBILE"}

\* C28: a job leaves the map only when its age is above the retention; a job
\* whose age is above the retention is eventually out of the map; and a
\* terminal job whose age is not above the retention is in the map, where
\* the routes find it.
C28_SweptOnlyAndEventuallyWhenExpired ==
  /\ [][\A i \in 1..Len(ajobs) :
          (ajobs[i].inJobs /\ ~ajobs'[i].inJobs)
            => now - ajobs[i].createdAt > jobRetentionMs]_vars
  /\ [](\A i \in 1..Len(ajobs) :
          (terminal(ajobs[i]) /\ now - ajobs[i].createdAt <= jobRetentionMs)
            => jobOf(i, ajobs[i].type))
  /\ \A i \in 1..(MaxJobs + 1) :
       (i <= Len(ajobs) /\ now - ajobs[i].createdAt > jobRetentionMs)
         ~> (i <= Len(ajobs) /\ ~ajobs[i].inJobs)

C28_Witness ==
  /\ Len(ajobs) >= 1
  /\ ~ajobs[1].inJobs
  /\ ajobs[1].status = "PRONTA"
  /\ now - ajobs[1].createdAt > jobRetentionMs
  /\ aresp.op = "stato"
  /\ aresp.job = 1
  /\ aresp.status = 404

\* ---------------------------------------------------------------------------
\* SpecChain: verify() on the entries of a journal from which one entry was
\* taken out, or in which two entries changed places.
\* ---------------------------------------------------------------------------

\* The journal after the documents of the given amounts were added, the
\* n-th at time n.
RECURSIVE addDocuments(_, _, _)
addDocuments(j, amounts, n) ==
  IF amounts = <<>> THEN j
  ELSE addDocuments(
         addDocument(j, [kind |-> "doc", numero |-> n, dataOra |-> n,
                         importoTotale |-> Head(amounts)], n).j,
         Tail(amounts), n + 1)

\* The journal of one session: opened at 0, the documents added, closed.
chainOf(amounts) ==
  closeCash(addDocuments(openCash(NewJournal, 0, 0).j, amounts, 1),
            Len(amounts) + 1, Len(amounts) + 1).j

AmountSeqs == UNION {[1..k -> Amounts] : k \in 0..(MaxEntries - 2)}

\* The entries without the i-th.
deleteEntry(entries, i) ==
  SubSeq(entries, 1, i - 1) \o SubSeq(entries, i + 1, Len(entries))

\* The entries with the i-th and the k-th in each other's place.
swapEntries(entries, i, k) ==
  [m \in 1..Len(entries) |->
     IF m = i THEN entries[k] ELSE IF m = k THEN entries[i] ELSE entries[m]]

ChainInputs ==
  UNION {
    {[journal |-> chainOf(amounts), change |-> "delete", i |-> i, k |-> i]
       : i \in 1..(Len(amounts) + 2)}
    \cup
    {[journal |-> chainOf(amounts), change |-> "swap", i |-> p[1], k |-> p[2]]
       : p \in {q \in (1..(Len(amounts) + 2)) \X (1..(Len(amounts) + 2)) : q[1] < q[2]}}
    : amounts \in AmountSeqs}

CInit ==
  /\ now = 0
  /\ journal = NewJournal
  /\ JournalIdle
  /\ PEMIdle
  /\ PELIdle
  /\ fin \in ChainInputs
  /\ fout = NotReturned
  /\ AuditIdle
  /\ PollIdle

\* The entries are changed and verify() is called.
VerifyChanged ==
  /\ ~fout.done
  /\ journal' = [fin.journal EXCEPT !.entries =
                   IF fin.change = "delete" THEN deleteEntry(@, fin.i)
                   ELSE swapEntries(@, fin.i, fin.k)]
  /\ fout' = [done |-> TRUE, ret |-> verify(journal')]
  /\ UNCHANGED <<now, journalSide, pemSide, pelSide, fin, auditSide, pollSide>>

CNext == VerifyChanged

SpecChain == CInit /\ [][CNext]_vars

\* C31: verify() is false on a journal from which an entry was deleted or
\* whose entries were reordered.
C31_DeletionOrReorderDetected ==
  fout.done => ~fout.ret

\* ---------------------------------------------------------------------------
\* SpecReceipts: the receipts of several sessions of two devices posted to
\* POST /api/document.  Each session numbers its receipts from 1.
\* ---------------------------------------------------------------------------

\* The n-th receipt of session s of a device: emitted at its own time, with
\* an amount of its own.
sessionReceipt(pemId, s, n) ==
  receipt("V1", pemId, n, 2 * (s - 1) + n,
          <<vatGroup(10, 100 * s, 10 * s)>>, 110 * s)

SessionReceipts ==
  {sessionReceipt(pemId, s, n) :
     pemId \in {"P1", "P2"}, s \in 1..MaxSessions, n \in {1, 2}}

PostSessionReceipt ==
  /\ \E d \in SessionReceipts : postDocument(d)
  /\ UNCHANGED <<now, journal, journalSide, pemSide, fnSide, pollSide, auditSide,
                 tasks, adeLog, aggLog>>

ENext == PostSessionReceipt

SpecReceipts == LInit /\ [][ENext]_vars

\* C34: a receipt stored at PEL is still stored after any later receipt was
\* ingested.
C34_StoredReceiptsStay ==
  [][\A r \in pdb.documents :
       \E q \in pdb'.documents : q.data = r.data]_vars

\* ---------------------------------------------------------------------------
\* SpecOutcome: the PEL server, with the outcomes of transmitted daily
\* receipts being written to their rows.
\* ---------------------------------------------------------------------------
UNext ==
  \/ LNext
  \/ OutcomeArrives

SpecOutcome == LInit /\ [][UNext]_vars

\* C36: the outcome stored on a daily receipts row is still on the row of
\* that key after any later step.
C36_OutcomeKept ==
  [][\A r \in pdb.daily :
       r.outcome # "null"
         => \E q \in pdb'.daily : keyOf(q) = keyOf(r) /\ q.outcome = r.outcome]_vars

\* The generateDailyReceipts call is between its listDocuments and the end of
\* its saveDailyReceipts.
aggregating(t) == t.pc \in {"list", "save"}

\* C37: when the last running generateDailyReceipts call writes its row,
\* every receipt stored by then for the device and the date of its journal
\* is among the receipts the row was computed from.
C37_FinalReportCoversStoredReceipts ==
  [][\A i \in 1..Len(tasks) :
       (/\ tasks[i].pc = "save"
        /\ tasks'[i].pc = "transmit"
        /\ \A k \in 1..Len(tasks) : k # i => ~aggregating(tasks[k]))
         => \A r \in pdb.documents :
              (r.pem = tasks[i].journal.pem
               /\ dateOf(r.datetime) = tasks[i].journal.date)
                => \E k \in 1..Len(tasks[i].documents) :
                     tasks[i].documents[k] = r.data]_vars

\* ---------------------------------------------------------------------------
\* SpecAuditLive: the audit jobs and their processing, where every awaited
\* call of a processing function returns or throws in the end.
\* ---------------------------------------------------------------------------
VNext ==
  \/ PostAuditJournal
  \/ PostAuditDc
  \/ ListJournalsReturns
  \/ StoreJournalFile
  \/ ResolveHash
  \/ GetStato

SpecAuditLive ==
  /\ AUInit
  /\ [][VNext]_vars
  /\ WF_vars(ListJournalsReturns)
  /\ WF_vars(StoreJournalFile)
  /\ WF_vars(ResolveHash)

\* C38: every audit job created is PRONTA or NON_DISPONIBILE in the end.
C38_JobEventuallyTerminal ==
  \A i \in 1..MaxJobs :
    (i <= Len(ajobs)) ~> (i <= Len(ajobs) /\ terminal(ajobs[i]))

C38_Witness ==
  /\ Len(ajobs) >= 1
  /\ ajobs[1].type = "journal"
  /\ ajobs[1].pc = "done"
  /\ ajobs[1].status = "PRONTA"
  /\ Len(ajobs[1].files) = 2
  /\ aresp.op = "stato"
  /\ aresp.body = <<"PRONTA">>

\* C40: the removal step of a polling cycle leaves pending every key that
\* was registered while the cycle was in progress and that the cycle has not
\* read since.
C40_RegistrationSurvivesCycle ==
  [][(cycle.pc = "next" /\ cycle'.pc = "idle")
       => \A key \in cycle.registered :
            \E i \in 1..Len(pending') : pending'[i].key = key]_vars

====
